---- MODULE Spec2Model ----
(***************************************************************************)
(* Model of fib.cpp: the memoized Fibonacci calculator fib(int) with its   *)
(* function-local static cache `memo`, and the driver loop of main().      *)
(*                                                                         *)
(* A `long long` is 64 bits wide.  TLC's integers are narrower, so a       *)
(* long long is modelled as its two's-complement bit pattern cut into four *)
(* 16-bit limbs, least significant first: <<l1, l2, l3, l4>> stands for    *)
(* l1 + l2*2^16 + l3*2^32 + l4*2^48 taken modulo 2^64, negative when the   *)
(* top bit (of l4) is set.                                                 *)
(*                                                                         *)
(* memo[i-1] + memo[i-2] is a signed addition with no overflow check.  The *)
(* sum is modelled as the machine addition gives it, modulo 2^64           *)
(* (AddWrap); AddOverflows tells where the mathematical sum leaves the     *)
(* range of long long, which the language leaves undefined.                *)
(***************************************************************************)
EXTENDS Integers, Sequences, FiniteSets, TLC

VARIABLES
    memo,         \* the static vector memo of fib; <<>> before its initialization
    initialized,  \* whether the static memo has been initialized (first valid call)
    status,       \* "running" or "exited" (main has returned)
    arg,          \* argument of the most recent call of fib
    outcome,      \* "none", "returned" or "thrown": how that call ended
    ret,          \* value returned by the most recent call (NoValue if none)
    what,         \* e.what() of the exception thrown by the most recent call (NoValue if none)
    index,        \* loop variable of main
    out,          \* lines written to std::cout, in order
    err,          \* lines written to std::cerr, in order
    watch         \* one returned call, remembered: [n |-> argument, v |-> value,
                  \* again |-> fib was called with n again since]; NoWatch before

vars == <<memo, initialized, status, arg, outcome, ret, what, index, out, err, watch>>

(***************************************************************************)
(* Bounds of the model.                                                    *)
(***************************************************************************)
\* variant: for (int index = 0; index <= 100; ++index)
LoopBoundInclusive == 100 + 1

\* for (int index = 0; index < 100; ++index)
LoopBound == 100

\* An arbitrary caller calls fib with the arguments -NegArgs .. -1, the low
\* indices 0 .. LowArg, and the HighArgs highest indices the driver requests,
\* LoopBound - HighArgs .. LoopBound - 1.
NegArgs == 2
LowArg == 10
HighArgs == 8

Args == ((0 - NegArgs) .. (0 - 1)) \cup (0 .. LowArg)
            \cup ((LoopBound - HighArgs) .. (LoopBound - 1))

(***************************************************************************)
(* long long arithmetic.                                                   *)
(***************************************************************************)
Base == 2^16
SignLimb == 2^15

NoValue == <<>>
NoWatch == <<>>

Zero == <<0, 0, 0, 0>>
One == <<1, 0, 0, 0>>

\* a small non-negative int converted to long long
LL(k) == <<k % Base, (k \div Base) % Base, 0, 0>>

IsNegative(a) == a[4] >= SignLimb

\* a + b on the bit patterns, modulo 2^64
AddWrap(a, b) ==
    LET s1 == a[1] + b[1]
        s2 == a[2] + b[2] + (s1 \div Base)
        s3 == a[3] + b[3] + (s2 \div Base)
        s4 == a[4] + b[4] + (s3 \div Base)
    IN  <<s1 % Base, s2 % Base, s3 % Base, s4 % Base>>

\* the mathematical sum of a and b is outside [-2^63, 2^63 - 1]
AddOverflows(a, b) ==
    /\ IsNegative(a) = IsNegative(b)
    /\ IsNegative(AddWrap(a, b)) # IsNegative(a)

(***************************************************************************)
(* fib                                                                     *)
(***************************************************************************)
Message == "Negative arguments are not allowed."

\* variant: static std::vector<long long> memo = {1, 1};
StaticInitOnes(m, init) == IF init THEN m ELSE <<One, One>>

\* variant: the vector is not static, so every call starts from {0, 1}
StaticInitEveryCall(m, init) == <<Zero, One>>

\* static std::vector<long long> memo = {0, 1};  executed once
StaticInit(m, init) == IF init THEN m ELSE <<Zero, One>>

\* variant: the loop body adds memo[i-1] to itself
PushNextSame(m) == Append(m, AddWrap(m[Len(m)], m[Len(m)]))

\* one iteration of the loop body, at i = Len(m): memo.push_back(memo[i-1] + memo[i-2])
PushNext(m) == Append(m, AddWrap(m[Len(m)], m[Len(m) - 1]))

\* variant: the loop runs one index too far, for (...; i <= n + 1; ++i)
RECURSIVE ExtendOneMore(_, _)
ExtendOneMore(m, n) == IF Len(m) <= n + 1 THEN ExtendOneMore(PushNext(m), n) ELSE m

\* for (int i = memo.size(); i <= n; ++i) memo.push_back(...)
RECURSIVE Extend(_, _)
Extend(m, n) == IF Len(m) <= n THEN Extend(PushNext(m), n) ELSE m

\* variant: the static is declared, and so initialized, before the check of n
FibThrowAfterInit(n) ==
    /\ status = "running"
    /\ n < 0
    /\ arg' = n
    /\ outcome' = "thrown"
    /\ ret' = NoValue
    /\ what' = Message
    /\ memo' = StaticInit(memo, initialized)
    /\ initialized' = TRUE
    /\ UNCHANGED status

\* if (n < 0) throw std::invalid_argument(...)
FibThrow(n) ==
    /\ status = "running"
    /\ n < 0
    /\ arg' = n
    /\ outcome' = "thrown"
    /\ ret' = NoValue
    /\ what' = Message
    /\ UNCHANGED <<memo, initialized, status>>

\* variant: the cache is rebuilt from {0, 1} up to index n on every call
MemoRebuilt(m, n) == Extend(SubSeq(m, 1, 2), n)

\* the cache when fib(n) returns, n >= 0
MemoAtReturn(m, n) == IF n < Len(m) THEN m ELSE Extend(m, n)

\* variant: return memo.back();
ReturnBack(m, n) == m[Len(m)]

\* return memo[n];
ReturnValue(m, n) == m[n + 1]

\* fib(n) runs to its return statement
FibReturn(n) ==
    /\ status = "running"
    /\ n >= 0
    /\ LET m0 == StaticInit(memo, initialized)
           m1 == MemoAtReturn(m0, n)
       IN  /\ memo' = m1
           /\ ret' = ReturnValue(m1, n)
    /\ what' = NoValue
    /\ initialized' = TRUE
    /\ arg' = n
    /\ outcome' = "returned"
    /\ UNCHANGED status

(***************************************************************************)
(* An arbitrary caller of fib: any argument of Args, in any order.         *)
(***************************************************************************)
CallThrow(n) == FibThrow(n) /\ UNCHANGED <<index, out, err, watch>>

\* what the caller remembers of the calls that returned
Remember(w, n, v) ==
    IF w = NoWatch
    THEN {w, [n |-> n, v |-> v, again |-> FALSE]}
    ELSE IF w.n = n THEN {[w EXCEPT !.again = TRUE]} ELSE {w}

CallReturn(n) ==
    /\ FibReturn(n)
    /\ watch' \in Remember(watch, n, ret')
    /\ UNCHANGED <<index, out, err>>

Init ==
    /\ memo = <<>>
    /\ initialized = FALSE
    /\ status = "running"
    /\ arg = 0
    /\ outcome = "none"
    /\ ret = NoValue
    /\ what = NoValue
    /\ index = 0
    /\ out = <<>>
    /\ err = <<>>
    /\ watch = NoWatch

Next ==
    \E n \in Args : CallThrow(n) \/ CallReturn(n)

Spec == Init /\ [][Next]_vars

(***************************************************************************)
(* main: the driver loop.                                                  *)
(***************************************************************************)
\* std::cout << "fib(" << index << ") = " << fib(index) << std::endl;
Line(n, v) == [n |-> n, v |-> v, endl |-> TRUE]

\* "fib(" << index << ") = " alone: what has reached std::cout when fib(index)
\* throws, in a build that writes the left operands before it calls fib
Partial(n) == [n |-> n, v |-> NoValue, endl |-> FALSE]

\* std::cerr << "Error: " << e.what() << std::endl;
ErrorLine(w) == [prefix |-> "Error: ", what |-> w]

\* one iteration of the loop: the try block, or the catch block if fib throws
MainIter ==
    /\ index < LoopBound
    /\ IF index < 0
       THEN /\ FibThrow(index)
            /\ out' \in {out, Append(out, Partial(index))}
            /\ err' = Append(err, ErrorLine(what'))
       ELSE /\ FibReturn(index)
            /\ out' = Append(out, Line(index, ret'))
            /\ err' = err
    /\ index' = index + 1
    /\ UNCHANGED watch

\* the loop condition fails; main returns 0 implicitly
MainExit ==
    /\ status = "running"
    /\ index >= LoopBound
    /\ status' = "exited"
    /\ UNCHANGED <<memo, initialized, arg, outcome, ret, what, index, out, err, watch>>

NextMain == MainIter \/ MainExit

SpecMain == Init /\ [][NextMain]_vars

\* main runs in one thread with nothing to wait for: an enabled step is taken
SpecMainFair == SpecMain /\ WF_vars(NextMain)

(***************************************************************************)
(* Reference definitions used to state the properties.                     *)
(***************************************************************************)
\* result(0) = 0, result(1) = 1, result(n) = result(n-1) + result(n-2),
\* with + the 64-bit addition modulo 2^64
RECURSIVE ResultUpTo(_, _)
ResultUpTo(s, n) ==
    IF Len(s) > n THEN s
    ELSE ResultUpTo(Append(s, AddWrap(s[Len(s)], s[Len(s) - 1])), n)

Result(n) == ResultUpTo(<<Zero, One>>, n)[n + 1]

\* Natural numbers below 2^80 as five 16-bit limbs, and their exact sum
MathAdd(a, b) ==
    LET s1 == a[1] + b[1]
        s2 == a[2] + b[2] + (s1 \div Base)
        s3 == a[3] + b[3] + (s2 \div Base)
        s4 == a[4] + b[4] + (s3 \div Base)
        s5 == a[5] + b[5] + (s4 \div Base)
    IN  <<s1 % Base, s2 % Base, s3 % Base, s4 % Base, s5>>

RECURSIVE MathFibUpTo(_, _)
MathFibUpTo(s, n) ==
    IF Len(s) > n THEN s
    ELSE MathFibUpTo(Append(s, MathAdd(s[Len(s)], s[Len(s) - 1])), n)

\* F(0) = 0, F(1) = 1, F(n) = F(n-1) + F(n-2) over the mathematical integers
MathFib(n) == MathFibUpTo(<<<<0, 0, 0, 0, 0>>, <<1, 0, 0, 0, 0>>>>, n)[n + 1]

\* the long long v holds the natural number x
Holds(v, x) == x[5] = 0 /\ x[4] < SignLimb /\ v = <<x[1], x[2], x[3], x[4]>>

IsPrefix(s, t) == Len(s) <= Len(t) /\ SubSeq(t, 1, Len(s)) = s

\* the cache a call of fib starts from, once its static is initialized
Before == StaticInit(memo, initialized)

(***************************************************************************)
(* C1.  For every n >= 0, after any sequence of earlier calls (valid or    *)
(* negative, in any order), fib(n) returns result(n), where result(0) = 0, *)
(* result(1) = 1, result(n) = result(n-1) + result(n-2) with the 64-bit    *)
(* addition; in particular fib(0) = 0, fib(1) = 1, fib(10) = 55.           *)
(***************************************************************************)
C1_ReturnsResult ==
    /\ (outcome # "none" /\ arg >= 0) => (outcome = "returned" /\ ret = Result(arg))
    /\ (outcome = "returned" /\ arg = 0) => ret = LL(0)
    /\ (outcome = "returned" /\ arg = 1) => ret = LL(1)
    /\ (outcome = "returned" /\ arg = 10) => ret = LL(55)

\* fib(n) returned a sum that overflowed, to a caller that had made other calls
C1_Witness ==
    /\ outcome = "returned"
    /\ arg >= 2
    /\ AddOverflows(memo[arg], memo[arg - 1])
    /\ watch # NoWatch
    /\ watch.n # arg

(***************************************************************************)
(* C2.  For every n < 0, in every cache state, fib(n) throws               *)
(* invalid_argument with the message "Negative arguments are not           *)
(* allowed.", returns no value and leaves the cache as it was.             *)
(***************************************************************************)
C2_NegativeThrows ==
    [][arg' < 0 =>
          /\ outcome' = "thrown"
          /\ what' = "Negative arguments are not allowed."
          /\ ret' = NoValue
          /\ memo' = memo
          /\ initialized' = initialized
          /\ status' = status]_vars

\* a negative call made after the cache has grown
C2_Witness ==
    /\ outcome = "thrown" /\ arg < 0 /\ what = Message
    /\ Len(memo) > 2

(***************************************************************************)
(* C3.  In every state of the cache it has at least two entries,           *)
(* cache[0] = 0, cache[1] = 1, and cache[i] = cache[i-1] + cache[i-2]      *)
(* (64-bit addition) for 2 <= i < length.                                  *)
(***************************************************************************)
C3_CacheInvariant ==
    IF initialized
    THEN /\ Len(memo) >= 2
         /\ memo[1] = Zero
         /\ memo[2] = One
         /\ \A i \in 3 .. Len(memo) : memo[i] = AddWrap(memo[i - 1], memo[i - 2])
    ELSE memo = <<>>

\* the cache holds entries past the first overflowing addition
C3_Witness ==
    /\ initialized
    /\ Len(memo) > LoopBound - HighArgs
    /\ \E i \in 3 .. Len(memo) : AddOverflows(memo[i - 1], memo[i - 2])

(***************************************************************************)
(* C4.  For every call the cache before the call is a prefix of the cache  *)
(* after it: its length never decreases and no stored value changes.       *)
(***************************************************************************)
C4_PrefixPreserved ==
    [][/\ Len(memo') >= Len(memo)
       /\ \A i \in 1 .. Len(memo) : memo'[i] = memo[i]]_vars

\* a call for an index below the end of a cache that has grown
C4_Witness ==
    /\ outcome = "returned"
    /\ arg + 1 < Len(memo)
    /\ Len(memo) > LowArg + 1

(***************************************************************************)
(* C5.  A call fib(n) with 0 <= n < cache length returns the stored        *)
(* cache[n] and leaves the whole cache unchanged.                          *)
(***************************************************************************)
C5_CachedHit ==
    [][(arg' >= 0 /\ arg' < Len(memo)) =>
          /\ outcome' = "returned"
          /\ ret' = memo[arg' + 1]
          /\ memo' = memo]_vars

\* fib(3) answered with 2 from a cache that reaches index 5 or further
C5_Witness ==
    /\ outcome = "returned"
    /\ arg = 3
    /\ ret = LL(2)
    /\ Len(memo) >= 6
    /\ memo[6] = LL(5)

(***************************************************************************)
(* C6.  Idempotence: two calls fib(n), n >= 0, consecutive or separated by *)
(* other calls, return the same value, and the later call changes neither  *)
(* the cache nor the value stored for any smaller index.                   *)
(***************************************************************************)
C6_Idempotent ==
    [][(watch # NoWatch /\ arg' = watch.n) =>
          /\ outcome' = "returned"
          /\ ret' = watch.v
          /\ memo' = memo
          /\ \A k \in 0 .. watch.n : memo'[k + 1] = memo[k + 1]]_vars

\* the remembered call was repeated after other calls had extended the cache
C6_Witness ==
    /\ watch # NoWatch
    /\ watch.again
    /\ outcome = "returned"
    /\ arg = watch.n
    /\ ret = watch.v
    /\ Len(memo) > arg + 1

(***************************************************************************)
(* C7.  The driver run terminates: it calls fib once for each index        *)
(* 0 .. 99 in ascending order, writes one line fib(N) = V per index to     *)
(* standard output in that order, nothing to standard error, and exits     *)
(* with code 0 after index 99.                                             *)
(***************************************************************************)
C7_Lines ==
    /\ err = <<>>
    /\ Len(out) = index
    /\ \A i \in 1 .. Len(out) : out[i].n = i - 1 /\ out[i].endl /\ out[i].v # NoValue
    /\ status = "exited" => (index = 100 /\ Len(out) = 100)

C7_DriverCompletes ==
    /\ []C7_Lines
    /\ [][index' # index => (index' = index + 1 /\ arg' = index /\ outcome' = "returned")]_vars
    /\ <>(status = "exited")

\* main has returned after writing the 100 lines
C7_Witness ==
    /\ status = "exited"
    /\ Len(out) = 100
    /\ out[100].n = 99

(***************************************************************************)
(* C8.  Every cache entry created during the driver run holds the true     *)
(* Fibonacci number F(i), and so does every value printed; no addition     *)
(* performed for the indices 0 .. 99 leaves the signed 64-bit range.       *)
(***************************************************************************)
C8_TrueFibonacci ==
    /\ \A i \in 1 .. Len(memo) : Holds(memo[i], MathFib(i - 1))
    /\ \A i \in 1 .. Len(out) : Holds(out[i].v, MathFib(out[i].n))
    /\ \A i \in 3 .. Len(memo) : ~AddOverflows(memo[i - 1], memo[i - 2])

(***************************************************************************)
(* C10.  A call fib(n) with n >= L, the cache length, appends the entries  *)
(* L .. n in ascending order, each the sum of the two before it, leaves    *)
(* the cache with exactly n + 1 entries and returns the last one.          *)
(***************************************************************************)
C10_ExtendsToN ==
    [][arg' >= Len(Before) =>
          /\ outcome' = "returned"
          /\ Len(memo') = arg' + 1
          /\ IsPrefix(Before, memo')
          /\ \A i \in (Len(Before) + 1) .. Len(memo') :
                 memo'[i] = AddWrap(memo'[i - 1], memo'[i - 2])
          /\ ret' = memo'[Len(memo')]]_vars

\* a call that appended several entries to a cache that had already grown
C10_Witness ==
    /\ outcome = "returned"
    /\ Len(memo) = arg + 1
    /\ watch # NoWatch
    /\ watch.n >= 2
    /\ watch.n + 2 < arg
====
